---------------------------- MODULE Spec2Model ----------------------------
(***************************************************************************)
(* Model of ARayCastSemanticLidar (RayCastSemanticLidar.cpp) and of the    *)
(* packed quad carla::geom::Vector4DuInt (Vector4DuInt.h).                 *)
(*                                                                         *)
(* Numbers.  The sensor computes in 32-bit floats.  The model uses fixed   *)
(* point: angles in degrees are integers counting 1/DegUnit of a degree,   *)
(* the stored horizontal angle (radians) counts 1/RadUnit of a radian,     *)
(* elapsed time counts 1/TimeUnit of a second, a cosine counts 1/CosUnit,  *)
(* a scalar material parameter counts 1/ValueUnit.  Float division is      *)
(* division rounded to the nearest grid value.                             *)
(***************************************************************************)
EXTENDS Integers, Sequences, FiniteSets, TLC

(***************************************************************************)
(* Bounds of the model.                                                    *)
(***************************************************************************)
MaxChannels == 2

MaxPointsPerSecond == 3

MaxTicks == 2

(***************************************************************************)
(* Fixed-point resolutions.                                                *)
(***************************************************************************)
DegUnit == 10

RadUnit == 1000

TimeUnit == 2

CosUnit == 100

ValueUnit == 512

PiNum == 355

PiDen == 113

(***************************************************************************)
(* Arithmetic helpers.                                                     *)
(***************************************************************************)
Abs(a) == IF a < 0 THEN -a ELSE a

Sign(a) == IF a < 0 THEN -1 ELSE 1

\* Float division a / b (b # 0), rounded to the nearest grid value.
FloatDiv(a, b) ==
    Sign(a) * Sign(b) * ((2 * Abs(a) + Abs(b)) \div (2 * Abs(b)))

\* std::fmod(a, m) for m > 0: the remainder has the sign of the dividend.
Fmod(a, m) == IF a >= 0 THEN a % m ELSE -((-a) % m)

\* FMath::RoundHalfFromZero applied to the quotient num / den (den > 0).
RoundHalfFromZero(num, den) ==
    IF num >= 0 THEN (2 * num + den) \div (2 * den)
                ELSE -((2 * (-num) + den) \div (2 * den))

\* carla::geom::Math::ToRadians / ToDegrees on the fixed-point grids.
ToRadians(deg) == FloatDiv(deg * PiNum * RadUnit, 180 * PiDen * DegUnit)

ToDegrees(rad) == FloatDiv(rad * 180 * PiDen * DegUnit, PiNum * RadUnit)

(***************************************************************************)
(* carla::geom::Vector4DuInt: four independent uint8_t channels.           *)
(***************************************************************************)
Vector4DuInt(ix, iy, iz, iw) ==
    [x |-> ix % 256, y |-> iy % 256, z |-> iz % 256, w |-> iw % 256]

\* operator+=, operator-= and operator*= of Vector4DuInt: each channel is
\* promoted to int, combined, and narrowed back to uint8_t.
PlusAssign_saturate(lhs, rhs) ==
    [x |-> IF lhs.x + rhs.x > 255 THEN 255 ELSE lhs.x + rhs.x,
     y |-> IF lhs.y + rhs.y > 255 THEN 255 ELSE lhs.y + rhs.y,
     z |-> IF lhs.z + rhs.z > 255 THEN 255 ELSE lhs.z + rhs.z,
     w |-> IF lhs.w + rhs.w > 255 THEN 255 ELSE lhs.w + rhs.w]

PlusAssign(lhs, rhs) ==
    Vector4DuInt(lhs.x + rhs.x, lhs.y + rhs.y, lhs.z + rhs.z, lhs.w + rhs.w)

MinusAssign(lhs, rhs) ==
    Vector4DuInt(lhs.x - rhs.x, lhs.y - rhs.y, lhs.z - rhs.z, lhs.w - rhs.w)

TimesAssign(lhs, rhs) ==
    Vector4DuInt(lhs.x * rhs, lhs.y * rhs, lhs.z * rhs, lhs.w * rhs)

\* SquaredLength: the products and their sum are computed in int, where
\* they fit (at most 4 * 255 * 255), and returned as uint64_t.
SquaredLength(v) == v.x * v.x + v.y * v.y + v.z * v.z + v.w * v.w

\* operator==.
Equals(lhs, rhs) ==
    (lhs.x = rhs.x) /\ (lhs.y = rhs.y) /\ (lhs.z = rhs.z) /\ (lhs.w = rhs.w)

FColor(r, g, b, a) == [R |-> r, G |-> g, B |-> b, A |-> a]

\* FColor textureColor = FColor(0, 0, 0, 0); every GetColorFromTexture call
\* is commented out, so this is the colour every branch reads.
textureColor == FColor(0, 0, 0, 0)

(***************************************************************************)
(* FHitResult as the classifier reads it.  A blocking hit carries the      *)
(* struck surface: the component's CustomDepthStencilValue, whether the    *)
(* component casts to UStaticMeshComponent, the face index, whether        *)
(* FindCollisionUV succeeds, the material bound at the face ("none", a     *)
(* plain "interface", or a material "instance") and the instance's         *)
(* parameter lists.  IncidenceCos stands for                               *)
(* DotProduct(VecInc, ImpactNormal), a function of the scene geometry.     *)
(* CastOverflow is the byte static_cast<uint8_t> yields for a float        *)
(* outside 0..255 (undefined behaviour: 0 when the conversion truncates,   *)
(* 255 when it saturates).  uv_coords is what FindCollisionUV writes, in    *)
(* 1/UVUnit of the texture size, and Textures[i] the UTexture2D bound as   *)
(* texture parameter i, for the indices the classifier casts (0 and 2).    *)
(***************************************************************************)
UVUnit == 4

\* A UTexture2D as GetColorFromTexture reads it: mip 0 with its size and
\* its pixels, row by row.
UTexture2D(width, height, pixels) ==
    [SizeX |-> width, SizeY |-> height, Pixels |-> pixels]

\* The textures of the struck material: two by one pixels each, every
\* pixel of a different colour.
FixtureTextures ==
    [i \in 0..2 |->
       UTexture2D(2, 1, <<FColor(1 + i, 2 + i, 3 + i, 4 + i),
                          FColor(10 + 20 * i, 20 + 20 * i, 30 + 20 * i,
                                 40 + 20 * i)>>)]

Tags == {3, 7}

TextureCounts == {0, 1, 2, 3, 4, 5, 13}

ScalarNames == {"Transparency", "Opacity"}

ScalarValues == {0, 1, 256, 512}

Surfaces ==
    [CustomDepthStencilValue : Tags,
     IsStaticMesh : BOOLEAN,
     FaceIndex : {-1, 0},
     UVFound : BOOLEAN,
     Material : {"none", "interface", "instance"},
     TextureParameterValues : TextureCounts,
     ScalarParameterValues : 0..1,
     ScalarName : ScalarNames,
     ScalarValue : ScalarValues,
     VectorParameterValues : 0..1,
     CastOverflow : {0, 255},
     IncidenceCos : {50},
     uv_coords : {<<1, 0>>},
     Textures : {FixtureTextures}]

\* FHitResult(ForceInit): what a trace that hits nothing leaves behind.
NoSurface ==
    [CustomDepthStencilValue |-> 0, IsStaticMesh |-> FALSE, FaceIndex |-> -1,
     UVFound |-> FALSE, Material |-> "none", TextureParameterValues |-> 0,
     ScalarParameterValues |-> 0, ScalarName |-> "Opacity", ScalarValue |-> 0,
     VectorParameterValues |-> 0, CastOverflow |-> 0, IncidenceCos |-> 0,
     uv_coords |-> <<0, 0>>, Textures |-> FixtureTextures]


\* What ParallelLineTraceSingleByChannel writes into HitInfo: nothing
\* struck, or a blocking hit on a surface (at distance 5).
Miss == [bBlockingHit |-> FALSE, Distance |-> 0, Surface |-> NoSurface]

Hit(surface) == [bBlockingHit |-> TRUE, Distance |-> 5, Surface |-> surface]

\* Outcomes of ParallelLineTraceSingleByChannel over a set of surfaces.
TraceResults(surfaces) ==
    {Miss} \cup {Hit(s) : s \in surfaces}

\* ShootLaser: the trace result with TraceEnd overwritten by the angles.
ShootLaser_yawFirst(VerticalAngle, HorizontalAngle, HitInfo) ==
    [bBlockingHit |-> HitInfo.bBlockingHit,
     Distance |-> HitInfo.Distance,
     Surface |-> HitInfo.Surface,
     TraceEnd |-> <<HorizontalAngle, VerticalAngle, HitInfo.Distance>>]

ShootLaser(VerticalAngle, HorizontalAngle, HitInfo) ==
    [bBlockingHit |-> HitInfo.bBlockingHit,
     Distance |-> HitInfo.Distance,
     Surface |-> HitInfo.Surface,
     TraceEnd |-> IF HitInfo.bBlockingHit
                  THEN <<VerticalAngle, HorizontalAngle, HitInfo.Distance>>
                  ELSE <<VerticalAngle, HorizontalAngle, 0>>]

(***************************************************************************)
(* FSemanticDetection and the classification ladder.  Every classifier     *)
(* operator returns [det, fatal]: fatal is TRUE when a                     *)
(* UE_LOG(LogCarla, Fatal, ...) was reached, which ends the process with   *)
(* the detection as it stood.                                              *)
(***************************************************************************)
DefaultDetection ==
    [point |-> <<0, 0, 0>>, cos_inc_angle |-> 0, object_idx |-> 0,
     object_tag |-> 0,
     base_color |-> Vector4DuInt(0, 0, 0, 0),
     ORME |-> Vector4DuInt(0, 0, 0, 0)]

\* The "error code n" blocks: both quads zero, object_idx = code.
ErrorDetection(Detection, code) ==
    [Detection EXCEPT !.base_color = Vector4DuInt(0, 0, 0, 0),
                      !.ORME = Vector4DuInt(0, 0, 0, 0),
                      !.object_idx = code]

\* static_cast<uint8_t>(num / den) for num / den >= 0: truncation when the
\* value fits, the build's overflow byte otherwise.
Uint8Cast(num, den, overflow) ==
    IF num \div den <= 255 THEN num \div den ELSE overflow

\* GetColorFromTexture(texture, uvCoordinates, color): the pixel of mip 0 at
\* the rounded coordinates, each narrowed to uint8; Fatal when a pixel
\* coordinate is not inside the mip.  RawImageData->Lock is taken to
\* succeed.  The classifier holds every call of it in a comment.
GetColorFromTexture(texture, uvCoordinates, color) ==
    LET width == texture.SizeX
        height == texture.SizeY
        PixelX == RoundHalfFromZero(uvCoordinates[1] * width, UVUnit) % 256
        PixelY == RoundHalfFromZero(uvCoordinates[2] * height, UVUnit) % 256
    IN  IF PixelX >= width \/ PixelY >= height
        THEN [color |-> color, fatal |-> TRUE]
        ELSE [color |-> texture.Pixels[PixelY * width + PixelX + 1],
              fatal |-> FALSE]

\* The test ScalarParameterValues[0].ParameterInfo.Name == "Transparency".
FirstScalarIsTransparency_any(materialInstance) == TRUE

FirstScalarIsTransparency(materialInstance) ==
    materialInstance.ScalarName = "Transparency"

\* The default case of the switch on TextureParameterValues.Num(): the
\* parameters are listed and UE_LOG Fatal ends the process; the detection
\* is not written.
UnsupportedTextureCount_code9(Detection) ==
    [det |-> ErrorDetection(Detection, 9), fatal |-> FALSE]

UnsupportedTextureCount(Detection) ==
    [det |-> Detection, fatal |-> TRUE]

ComputeRawDetectionFromMaterialInstance(Detection, materialInstance) ==
    LET tex == materialInstance.TextureParameterValues
        sca == materialInstance.ScalarParameterValues
        vec == materialInstance.VectorParameterValues
        c == textureColor
        alpha == Uint8Cast(materialInstance.ScalarValue * 256, ValueUnit,
                           materialInstance.CastOverflow)
    IN  CASE tex = 0 /\ sca = 0 /\ vec = 0 ->
               [det |-> ErrorDetection(Detection, 6), fatal |-> FALSE]
          [] tex = 0 /\ sca = 0 /\ vec # 0 ->
               \* UE_LOG Fatal comes before the error code 7 assignments
               [det |-> Detection, fatal |-> TRUE]
          [] tex = 0 /\ sca # 0 /\ FirstScalarIsTransparency(materialInstance) ->
               [det |-> [Detection EXCEPT
                           !.ORME = Vector4DuInt(c.R, c.G, c.B, c.A),
                           !.base_color = Vector4DuInt(c.R, c.G, c.B, 255 - alpha)],
                fatal |-> FALSE]
          [] tex = 0 /\ sca # 0 /\ ~FirstScalarIsTransparency(materialInstance) ->
               [det |-> ErrorDetection(Detection, 8), fatal |-> FALSE]
          [] tex \in {1, 2} ->
               [det |-> [Detection EXCEPT
                           !.ORME = Vector4DuInt(c.R, c.G, c.B, c.A),
                           !.base_color = Vector4DuInt(c.R, c.G, c.B, c.A)],
                fatal |-> FALSE]
          [] tex \in {3, 4, 13} ->
               [det |-> [Detection EXCEPT
                           !.base_color = Vector4DuInt(c.R, c.G, c.B, c.A),
                           !.ORME = Vector4DuInt(c.R, c.G, c.B, c.A)],
                fatal |-> FALSE]
          [] OTHER -> UnsupportedTextureCount(Detection)

\* The four checks of ComputeRawDetectionFromComponent in source order:
\* the error code of the first that fails, 0 when all pass.
ComponentLadder_uvFirst(HitInfo) ==
    IF ~HitInfo.Surface.UVFound THEN 3
    ELSE IF HitInfo.Surface.FaceIndex = -1 THEN 2
    ELSE IF HitInfo.Surface.Material = "none" THEN 4
    ELSE IF HitInfo.Surface.Material # "instance" THEN 5
    ELSE 0

ComponentLadder(HitInfo) ==
    IF HitInfo.Surface.FaceIndex = -1 THEN 2
    ELSE IF ~HitInfo.Surface.UVFound THEN 3
    ELSE IF HitInfo.Surface.Material = "none" THEN 4
    ELSE IF HitInfo.Surface.Material # "instance" THEN 5
    ELSE 0

ComputeRawDetectionFromComponent(HitInfo, Detection) ==
    IF ComponentLadder(HitInfo) # 0
    THEN [det |-> ErrorDetection(Detection, ComponentLadder(HitInfo)),
          fatal |-> FALSE]
    ELSE ComputeRawDetectionFromMaterialInstance(Detection, HitInfo.Surface)

\* The branch "nothing was hit within range".
MissDetection_keep(Detection) == Detection

MissDetection(Detection) ==
    [Detection EXCEPT !.cos_inc_angle = 2 * CosUnit,
                      !.object_idx = 0,
                      !.object_tag = 0,
                      !.base_color = Vector4DuInt(0, 0, 0, 0),
                      !.ORME = Vector4DuInt(0, 0, 0, 0)]

\* The branch "Component is NULLPTR" (error code 1).
NullComponentDetection(Detection) ==
    [Detection EXCEPT !.base_color = Vector4DuInt(1, 0, 0, 0),
                      !.ORME = Vector4DuInt(0, 0, 0, 0),
                      !.object_idx = 1]

ComputeRawDetection(HitInfo) ==
    LET d0 == [DefaultDetection EXCEPT !.point = HitInfo.TraceEnd]
        d1 == [d0 EXCEPT !.cos_inc_angle = HitInfo.Surface.IncidenceCos,
                         !.object_idx = 0,
                         !.object_tag = HitInfo.Surface.CustomDepthStencilValue]
    IN  IF HitInfo.bBlockingHit
        THEN IF HitInfo.Surface.IsStaticMesh
             THEN ComputeRawDetectionFromComponent(HitInfo, d1)
             ELSE [det |-> NullComponentDetection(d1), fatal |-> FALSE]
        ELSE [det |-> MissDetection(d0), fatal |-> FALSE]

(***************************************************************************)
(* Configuration (FLidarDescription) and the state it sets up.             *)
(***************************************************************************)
RotationFrequencies == {-1, 1, 3}

HorizontalFovs == {90 * DegUnit, 360 * DegUnit}

Configs ==
    [Channels : 1..MaxChannels,
     PointsPerSecond : 1..MaxPointsPerSecond,
     RotationFrequency : RotationFrequencies,
     HorizontalFov : HorizontalFovs,
     UpperFovLimit : {10 * DegUnit},
     LowerFovLimit : {-30 * DegUnit}]

\* DeltaTime of a tick, in 1/TimeUnit seconds.
DeltaTimes == {1, 2, 3}

\* CreateLasers: one vertical angle per channel, from the upper limit down.
CreateLasers_fromLower(d) ==
    LET NumberOfLasers == d.Channels
        DeltaAngle == IF NumberOfLasers = 1 THEN 0
                      ELSE FloatDiv(d.UpperFovLimit - d.LowerFovLimit,
                                    NumberOfLasers - 1)
    IN  [i \in 1..NumberOfLasers |-> d.LowerFovLimit + (i - 1) * DeltaAngle]

CreateLasers(d) ==
    LET NumberOfLasers == d.Channels
        DeltaAngle == IF NumberOfLasers = 1 THEN 0
                      ELSE FloatDiv(d.UpperFovLimit - d.LowerFovLimit,
                                    NumberOfLasers - 1)
    IN  [i \in 1..NumberOfLasers |-> d.UpperFovLimit - (i - 1) * DeltaAngle]

\* FSemanticLidarData(ChannelCount): angle 0, a zero count per channel, no
\* detections.
FSemanticLidarData(ChannelCount) ==
    [HorizontalAngle |-> 0,
     header |-> [c \in 1..ChannelCount |-> 0],
     points |-> << >>]

\* std::vector::resize(n) on a vector of counts.
Resize(v, n) == [i \in 1..n |-> IF i <= Len(v) THEN v[i] ELSE 0]

\* FSemanticLidarData::ResetMemory / WritePointSync / WriteChannelCount.
ResetMemory(data, points_per_channel) ==
    [data EXCEPT !.header = [c \in DOMAIN data.header |-> 0],
                 !.points = << >>]

WritePointSync(data, detection) ==
    [data EXCEPT !.points = Append(@, detection)]

WriteChannelCount(data, points_per_channel) ==
    [data EXCEPT !.header = [c \in DOMAIN data.header |->
                               IF c <= Len(points_per_channel)
                               THEN points_per_channel[c] ELSE @[c]]]

(***************************************************************************)
(* The planner of SimulateLidar.                                           *)
(***************************************************************************)
\* PointsToScanWithOneLaser for a tick of DeltaTime dt.
PointsToScan(d, dt) ==
    RoundHalfFromZero(d.PointsPerSecond * dt, TimeUnit * d.Channels)

\* The early return test: PointsToScanWithOneLaser <= 0.
NoPointsRequested_never(points) == points < 0

NoPointsRequested(points) == points <= 0

\* AngleDistanceOfTick = RotationFrequency * HorizontalFov * DeltaTime.
AngleDistanceOfTick_perPoint(d, dt) ==
    FloatDiv(d.RotationFrequency * d.HorizontalFov * dt, TimeUnit)
        * PointsToScan(d, dt)

AngleDistanceOfTick(d, dt) ==
    FloatDiv(d.RotationFrequency * d.HorizontalFov * dt, TimeUnit)

\* The horizontal angle of sample idxPtsOneLaser of a tick.
HorizAngle(t, d, idxPtsOneLaser) ==
    Fmod(t.CurrentHorizontalAngle
           + t.AngleDistanceOfLaserMeasure * idxPtsOneLaser,
         d.HorizontalFov)
      - FloatDiv(d.HorizontalFov, 2)

\* The locals of SimulateLidar past the early return.  The source reaches
\* the quotient only with PointsToScanWithOneLaser > 0; a float quotient by
\* zero is inf or NaN and does not trap, and no sample would read it.
TickPlan(d, dt, data) ==
    [DeltaTime |-> dt,
     PointsToScanWithOneLaser |-> PointsToScan(d, dt),
     CurrentHorizontalAngle |-> ToDegrees(data.HorizontalAngle),
     AngleDistanceOfTick |-> AngleDistanceOfTick(d, dt),
     AngleDistanceOfLaserMeasure |->
         IF PointsToScan(d, dt) = 0 THEN 0
         ELSE FloatDiv(AngleDistanceOfTick(d, dt), PointsToScan(d, dt))]

\* The locals of a tick that returns early.
EmptyPlan(dt) ==
    [DeltaTime |-> dt, PointsToScanWithOneLaser |-> 0,
     CurrentHorizontalAngle |-> 0, AngleDistanceOfTick |-> 0,
     AngleDistanceOfLaserMeasure |-> 0]

\* The angle SetHorizontalAngle stores at the end of the tick.
NextHorizontalAngle(t, d) ==
    ToRadians(Fmod(t.CurrentHorizontalAngle + t.AngleDistanceOfTick,
                   d.HorizontalFov))

(***************************************************************************)
(* Raw hit buffers.                                                        *)
(***************************************************************************)
\* ResetRecordedHits: one cleared buffer per channel.
ResetRecordedHits_stale(Channels) ==
    [c \in 1..Channels |-> <<ShootLaser(0, 0, Miss)>>]

ResetRecordedHits(Channels) == [c \in 1..Channels |-> << >>]

\* "always write pt": the hit is recorded whatever ShootLaser found.
ShouldWritePoint_onlyHits(hit) == hit.bBlockingHit

ShouldWritePoint(hit) == TRUE

\* WritePointAsync: RecordedHits[channel].emplace_back(detection).
WritePointAsync_firstBuffer(hits, channel, detection) ==
    [hits EXCEPT ![1] = Append(@, detection)]

WritePointAsync(hits, channel, detection) ==
    [hits EXCEPT ![channel] = Append(@, detection)]

\* PxScene::lockRead / unlockRead as a count of read locks held.
lockRead(held) == held + 1

unlockRead_skipped(held) == held

unlockRead(held) == held - 1

\* The order in which ComputeAndSaveDetections visits the recorded hits:
\* channel by channel, each channel's hits front to back.
RECURSIVE ChannelMajor(_, _, _)
ChannelMajor(hits, c, Channels) ==
    IF c > Channels THEN << >>
    ELSE [j \in 1..Len(hits[c]) |-> <<c, j>>]
           \o ChannelMajor(hits, c + 1, Channels)

RECURSIVE ChannelMajorBackwards(_, _, _)
ChannelMajorBackwards(hits, c, Channels) ==
    IF c > Channels THEN << >>
    ELSE ChannelMajorBackwards(hits, c + 1, Channels)
           \o [j \in 1..Len(hits[c]) |-> <<c, j>>]

DetectionOrder_lastChannelFirst(hits, Channels) ==
    ChannelMajorBackwards(hits, 1, Channels)

DetectionOrder(hits, Channels) == ChannelMajor(hits, 1, Channels)

(***************************************************************************)
(* State.                                                                  *)
(*   Description, LaserAngles, PointsPerChannel, RecordedHits,             *)
(*   SemanticLidarData : the members of ARayCastSemanticLidar;             *)
(*   pc        : where the game thread is inside PostPhysTick: "idle"      *)
(*               between ticks, "fanout" inside the ParallelFor, "joined"  *)
(*               after unlockRead, "classify" inside the second loop of    *)
(*               ComputeAndSaveDetections, "advance" before                *)
(*               SetHorizontalAngle, "send" after SimulateLidar returned,  *)
(*               "fatal" once a check or a Fatal log ended the process;    *)
(*   tick      : the locals of the running SimulateLidar call;             *)
(*   idxPtsOneLaser : per channel task of ParallelFor, its loop index;     *)
(*   classified : hits ComputeAndSaveDetections has classified so far;     *)
(*   readLock  : read locks held on the PxScene;                           *)
(*   DataStream : what the transport received (count, last sweep);         *)
(*   scene     : the collision scene the rays of the tick are traced in;   *)
(*   probe, probeResult : the input and result of one stand-alone call of  *)
(*                ComputeRawDetection, or of the Vector4DuInt operators.   *)
(* History variables, written and never read by the sensor:                *)
(*   tickLog   : the DeltaTime of every tick started;                      *)
(*   writers   : per raw-hit buffer, the tasks that wrote it in this tick; *)
(*   lockAcquires, unlockedCasts : lockRead calls of this tick, and rays   *)
(*               cast in this tick while no read lock was held.            *)
(***************************************************************************)
VARIABLES Description, LaserAngles, PointsPerChannel, RecordedHits,
          SemanticLidarData, pc, tick, idxPtsOneLaser, classified, readLock,
          DataStream, scene, probe, probeResult,
          tickLog, writers, lockAcquires, unlockedCasts

vars == <<Description, LaserAngles, PointsPerChannel, RecordedHits,
          SemanticLidarData, pc, tick, idxPtsOneLaser, classified, readLock,
          DataStream, scene, probe, probeResult,
          tickLog, writers, lockAcquires, unlockedCasts>>

sensorVars == <<Description, LaserAngles, PointsPerChannel, RecordedHits,
                SemanticLidarData, pc, tick, idxPtsOneLaser, classified,
                readLock, DataStream, scene>>

historyVars == <<tickLog, writers, lockAcquires, unlockedCasts>>

Channels == 1..Description.Channels

\* The surfaces the rays of a tick can strike: a textured static mesh, a
\* component that is no static mesh, and a material instance with an
\* unsupported number of textures.
TexturedSurface ==
    [CustomDepthStencilValue |-> 7, IsStaticMesh |-> TRUE, FaceIndex |-> 0,
     UVFound |-> TRUE, Material |-> "instance", TextureParameterValues |-> 1,
     ScalarParameterValues |-> 0, ScalarName |-> "Opacity", ScalarValue |-> 0,
     VectorParameterValues |-> 0, CastOverflow |-> 0, IncidenceCos |-> 50,
     uv_coords |-> <<1, 0>>, Textures |-> FixtureTextures]

UnsupportedSurface == [TexturedSurface EXCEPT !.TextureParameterValues = 5]

\* A material instance with vector parameters only.
VectorOnlySurface ==
    [TexturedSurface EXCEPT !.TextureParameterValues = 0,
                            !.VectorParameterValues = 1]

\* The scenes a tick can run in, and what ParallelLineTraceSingleByChannel
\* reports in each for the ray of channel idxChannel (from 1), sample
\* idxPts (from 0): nothing in range; a textured wall all around; a wall
\* with gaps; a wall with patches of an unsupported material.
Scenes == {"clear", "wall", "gaps", "patches"}

Trace(sc, idxChannel, idxPts) ==
    CASE sc = "clear" -> Miss
      [] sc = "wall" -> Hit(TexturedSurface)
      [] sc = "gaps" -> IF (idxChannel + idxPts) % 2 = 0
                        THEN Miss ELSE Hit(TexturedSurface)
      [] sc = "patches" -> IF (idxChannel + idxPts) % 2 = 0
                           THEN Hit(UnsupportedSurface)
                           ELSE Hit(TexturedSurface)
      [] sc = "decals" -> IF (idxChannel + idxPts) % 2 = 0
                          THEN Hit(VectorOnlySurface)
                          ELSE Hit(TexturedSurface)

\* Set(LidarDescription) on a freshly constructed sensor.
InitSensor(d) ==
    /\ Description = d
    /\ SemanticLidarData = FSemanticLidarData(Description.Channels)
    /\ LaserAngles = CreateLasers(Description)
    /\ PointsPerChannel = Resize(<< >>, Description.Channels)
    /\ RecordedHits = << >>
    /\ pc = "idle"
    /\ tick = EmptyPlan(0)
    /\ idxPtsOneLaser = << >>
    /\ classified = 0
    /\ readLock = 0
    /\ DataStream = [sent |-> 0, last |-> << >>]
    /\ scene = "clear"
    /\ tickLog = << >>
    /\ writers = << >>
    /\ lockAcquires = 0
    /\ unlockedCasts = 0

Init ==
    /\ \E d \in Configs : InitSensor(d)
    /\ probe = << >>
    /\ probeResult = << >>

(***************************************************************************)
(* PostPhysTick, step by step.                                             *)
(***************************************************************************)
\* SimulateLidar up to the ParallelFor: the early return, or the plan, the
\* buffer reset and lockRead.
SimulateLidarBegin(DeltaTime, sc) ==
    /\ pc = "idle"
    /\ Len(tickLog) < MaxTicks
    /\ tickLog' = Append(tickLog, DeltaTime)
    /\ scene' = sc
    /\ IF NoPointsRequested(PointsToScan(Description, DeltaTime))
       THEN \* "no points requested this frame": return
            /\ tick' = EmptyPlan(DeltaTime)
            /\ pc' = "send"
            /\ UNCHANGED <<RecordedHits, idxPtsOneLaser, readLock,
                           writers, lockAcquires, unlockedCasts>>
       ELSE IF Description.Channels # Len(LaserAngles)
       THEN \* check(ChannelCount == LaserAngles.Num()) fails
            /\ tick' = EmptyPlan(DeltaTime)
            /\ pc' = "fatal"
            /\ UNCHANGED <<RecordedHits, idxPtsOneLaser, readLock,
                           writers, lockAcquires, unlockedCasts>>
       ELSE /\ tick' = TickPlan(Description, DeltaTime, SemanticLidarData)
            /\ RecordedHits' = ResetRecordedHits(Description.Channels)
            /\ idxPtsOneLaser' = [c \in Channels |-> 0]
            /\ readLock' = lockRead(readLock)
            /\ writers' = [c \in Channels |-> {}]
            /\ lockAcquires' = (lockRead(readLock) - readLock)
            /\ unlockedCasts' = 0
            /\ pc' = "fanout"
    /\ UNCHANGED <<Description, LaserAngles, PointsPerChannel,
                   SemanticLidarData, classified, DataStream, probe,
                   probeResult>>

\* The loop test of a ParallelFor task:
\* idxPtsOneLaser < PointsToScanWithOneLaser.
MoreSamples_butLast(idx, points) == idx + 1 < points

MoreSamples(idx, points) == idx < points

\* One iteration of the loop of the ParallelFor task of channel idxChannel:
\* ShootLaser, then WritePointAsync.
LaserTask(idxChannel) ==
    /\ pc = "fanout"
    /\ MoreSamples(idxPtsOneLaser[idxChannel], tick.PointsToScanWithOneLaser)
    /\ LET HitResult ==
             ShootLaser(LaserAngles[idxChannel],
                        HorizAngle(tick, Description,
                                   idxPtsOneLaser[idxChannel]),
                        Trace(scene, idxChannel, idxPtsOneLaser[idxChannel]))
       IN  RecordedHits' =
             IF ShouldWritePoint(HitResult)
             THEN WritePointAsync(RecordedHits, idxChannel, HitResult)
             ELSE RecordedHits
    /\ writers' = [c \in DOMAIN writers |->
                     IF RecordedHits'[c] # RecordedHits[c]
                     THEN writers[c] \cup {idxChannel} ELSE writers[c]]
    /\ unlockedCasts' = IF readLock > 0 THEN unlockedCasts
                        ELSE unlockedCasts + 1
    /\ idxPtsOneLaser' = [idxPtsOneLaser EXCEPT ![idxChannel] = @ + 1]
    /\ UNCHANGED <<Description, LaserAngles, PointsPerChannel,
                   SemanticLidarData, pc, tick, classified, readLock,
                   DataStream, scene, probe, probeResult, tickLog,
                   lockAcquires>>

\* ParallelFor returns once every task has finished; unlockRead follows.
ParallelForJoin ==
    /\ pc = "fanout"
    /\ \A c \in Channels :
         idxPtsOneLaser[c] = tick.PointsToScanWithOneLaser
    /\ readLock' = unlockRead(readLock)
    /\ pc' = "joined"
    /\ UNCHANGED <<Description, LaserAngles, PointsPerChannel, RecordedHits,
                   SemanticLidarData, tick, idxPtsOneLaser, classified,
                   DataStream, scene, probe, probeResult, historyVars>>

\* ComputeAndSaveDetections, first loop and ResetMemory.
BeginSaveDetections ==
    /\ pc = "joined"
    /\ PointsPerChannel' =
         [c \in DOMAIN PointsPerChannel |->
            IF c <= Description.Channels THEN Len(RecordedHits[c])
            ELSE PointsPerChannel[c]]
    /\ SemanticLidarData' = ResetMemory(SemanticLidarData, PointsPerChannel')
    /\ classified' = 0
    /\ pc' = "classify"
    /\ UNCHANGED <<Description, LaserAngles, RecordedHits, tick,
                   idxPtsOneLaser, readLock, DataStream, scene, probe,
                   probeResult, historyVars>>

\* ComputeAndSaveDetections, one iteration of the second loop:
\* ComputeRawDetection on the next hit, then WritePointSync.
ClassifyHit ==
    /\ pc = "classify"
    /\ classified < Len(DetectionOrder(RecordedHits, Description.Channels))
    /\ LET at == DetectionOrder(RecordedHits, Description.Channels)[classified + 1]
           r == ComputeRawDetection(RecordedHits[at[1]][at[2]])
       IN  IF r.fatal
           THEN /\ pc' = "fatal"
                /\ UNCHANGED <<SemanticLidarData, classified>>
           ELSE /\ SemanticLidarData' = WritePointSync(SemanticLidarData, r.det)
                /\ classified' = classified + 1
                /\ pc' = pc
    /\ UNCHANGED <<Description, LaserAngles, PointsPerChannel, RecordedHits,
                   tick, idxPtsOneLaser, readLock, DataStream, scene,
                   probe, probeResult, historyVars>>

\* ComputeAndSaveDetections, the closing WriteChannelCount.
SaveChannelCount ==
    /\ pc = "classify"
    /\ classified = Len(DetectionOrder(RecordedHits, Description.Channels))
    /\ SemanticLidarData' = WriteChannelCount(SemanticLidarData, PointsPerChannel)
    /\ pc' = "advance"
    /\ UNCHANGED <<Description, LaserAngles, PointsPerChannel, RecordedHits,
                   tick, idxPtsOneLaser, classified, readLock, DataStream,
                   scene, probe, probeResult, historyVars>>

\* The end of SimulateLidar: SetHorizontalAngle.
SetHorizontalAngle ==
    /\ pc = "advance"
    /\ SemanticLidarData' =
         [SemanticLidarData EXCEPT
            !.HorizontalAngle = NextHorizontalAngle(tick, Description)]
    /\ pc' = "send"
    /\ UNCHANGED <<Description, LaserAngles, PointsPerChannel, RecordedHits,
                   tick, idxPtsOneLaser, classified, readLock, DataStream,
                   scene, probe, probeResult, historyVars>>

\* PostPhysTick after SimulateLidar: DataStream.Send(SemanticLidarData).
SendStream ==
    /\ pc = "send"
    /\ DataStream' = [sent |-> DataStream.sent + 1,
                      last |-> [header |-> SemanticLidarData.header,
                                points |-> SemanticLidarData.points]]
    /\ pc' = "idle"
    /\ UNCHANGED <<Description, LaserAngles, PointsPerChannel, RecordedHits,
                   SemanticLidarData, tick, idxPtsOneLaser, classified,
                   readLock, scene, probe, probeResult, historyVars>>

Next ==
    \/ \E DeltaTime \in DeltaTimes, sc \in Scenes :
         SimulateLidarBegin(DeltaTime, sc)
    \/ \E idxChannel \in Channels : LaserTask(idxChannel)
    \/ ParallelForJoin
    \/ BeginSaveDetections
    \/ ClassifyHit
    \/ SaveChannelCount
    \/ SetHorizontalAngle
    \/ SendStream

Spec == Init /\ [][Next]_vars

\* The same machine under the scheduling the code gives it: ParallelFor
\* runs every channel task until its loop ends, and the sequential part of
\* SimulateLidar and PostPhysTick goes on from statement to statement.
\* When the next tick comes is up to the engine.  The sensor turns once a
\* second over the full circle, and a tick can also run in a wall with
\* decals, patches of a material instance with vector parameters only.
FairConfigs ==
    {d \in Configs :
       d.RotationFrequency = 1 /\ d.HorizontalFov = 360 * DegUnit}

FairScenes == Scenes \cup {"decals"}

InitFair ==
    /\ \E d \in FairConfigs : InitSensor(d)
    /\ probe = << >>
    /\ probeResult = << >>

NextFair ==
    \/ \E DeltaTime \in DeltaTimes, sc \in FairScenes :
         SimulateLidarBegin(DeltaTime, sc)
    \/ \E idxChannel \in Channels : LaserTask(idxChannel)
    \/ ParallelForJoin
    \/ BeginSaveDetections
    \/ ClassifyHit
    \/ SaveChannelCount
    \/ SetHorizontalAngle
    \/ SendStream

SpecFair ==
    /\ InitFair
    /\ [][NextFair]_vars
    /\ \A idxChannel \in 1..MaxChannels :
         WF_vars(idxChannel \in Channels /\ LaserTask(idxChannel))
    /\ WF_vars(ParallelForJoin)
    /\ WF_vars(BeginSaveDetections)
    /\ WF_vars(ClassifyHit)
    /\ WF_vars(SaveChannelCount)
    /\ WF_vars(SetHorizontalAngle)
    /\ WF_vars(SendStream)

(***************************************************************************)
(* A stand-alone call of the classifier: ShootLaser's result for one ray   *)
(* on any surface, handed to ComputeRawDetection.                          *)
(***************************************************************************)
ProbeConfig ==
    [Channels |-> 1, PointsPerSecond |-> 1, RotationFrequency |-> 1,
     HorizontalFov |-> 360 * DegUnit, UpperFovLimit |-> 10 * DegUnit,
     LowerFovLimit |-> -30 * DegUnit]

Probes ==
    {ShootLaser(10 * DegUnit, -45 * DegUnit, HitInfo) :
       HitInfo \in TraceResults(Surfaces)}

InitClassify ==
    /\ InitSensor(ProbeConfig)
    /\ probe \in Probes
    /\ probeResult = << >>

ClassifyProbe ==
    /\ probe # << >>
    /\ probeResult = << >>
    /\ probeResult' = ComputeRawDetection(probe)
    /\ UNCHANGED <<sensorVars, probe, historyVars>>

NextClassify == ClassifyProbe

SpecClassify == InitClassify /\ [][NextClassify]_vars

(***************************************************************************)
(* Reconfiguration: Set(LidarDescription) on a sensor between two ticks,   *)
(* with any channel count up to MaxLasers and any pair of vertical limits  *)
(* with upper >= lower.                                                    *)
(***************************************************************************)
MaxLasers == 5

VerticalLimits ==
    {-30 * DegUnit, -15 * DegUnit, -5 * DegUnit, 0, 10 * DegUnit,
     15 * DegUnit}

LaserConfigs ==
    {d \in [Channels : 1..MaxLasers,
            PointsPerSecond : {1},
            RotationFrequency : {1},
            HorizontalFov : {360 * DegUnit},
            UpperFovLimit : VerticalLimits,
            LowerFovLimit : VerticalLimits] :
       d.UpperFovLimit >= d.LowerFovLimit}

Set_keepLasers(LidarDescription) ==
    /\ pc = "idle"
    /\ Description' = LidarDescription
    /\ SemanticLidarData' = FSemanticLidarData(LidarDescription.Channels)
    /\ PointsPerChannel' = Resize(PointsPerChannel, LidarDescription.Channels)
    /\ UNCHANGED <<LaserAngles, RecordedHits, pc, tick, idxPtsOneLaser,
                   classified, readLock, DataStream, scene, probe,
                   probeResult, historyVars>>

Set(LidarDescription) ==
    /\ pc = "idle"
    /\ Description' = LidarDescription
    /\ SemanticLidarData' = FSemanticLidarData(LidarDescription.Channels)
    /\ LaserAngles' = CreateLasers(LidarDescription)
    /\ PointsPerChannel' = Resize(PointsPerChannel, LidarDescription.Channels)
    /\ UNCHANGED <<RecordedHits, pc, tick, idxPtsOneLaser, classified,
                   readLock, DataStream, scene, probe, probeResult,
                   historyVars>>

InitConfigure ==
    /\ InitSensor(ProbeConfig)
    /\ probe = << >>
    /\ probeResult = << >>

NextConfigure == \E LidarDescription \in LaserConfigs : Set(LidarDescription)

SpecConfigure == InitConfigure /\ [][NextConfigure]_vars

(***************************************************************************)
(* Ticks and reconfigurations in any order: between two ticks the sensor   *)
(* may be Set to any description of FairConfigs.                           *)
(***************************************************************************)
InitReconfigure ==
    /\ \E d \in FairConfigs : InitSensor(d)
    /\ probe = << >>
    /\ probeResult = << >>

NextReconfigure ==
    \/ \E LidarDescription \in FairConfigs : Set(LidarDescription)
    \/ \E DeltaTime \in DeltaTimes, sc \in Scenes :
         SimulateLidarBegin(DeltaTime, sc)
    \/ \E idxChannel \in Channels : LaserTask(idxChannel)
    \/ ParallelForJoin
    \/ BeginSaveDetections
    \/ ClassifyHit
    \/ SaveChannelCount
    \/ SetHorizontalAngle
    \/ SendStream

SpecReconfigure == InitReconfigure /\ [][NextReconfigure]_vars

(***************************************************************************)
(* A stand-alone use of Vector4DuInt: two quads and an 8-bit scalar, and   *)
(* what the operators make of them.                                        *)
(***************************************************************************)
Quads(bytes) == [x : bytes, y : bytes, z : bytes, w : bytes]

VectorProbes ==
    [a : Quads({0, 200, 255}), b : Quads({0, 100, 255}), k : {0, 3, 255}]

InitVector ==
    /\ InitSensor(ProbeConfig)
    /\ probe \in VectorProbes
    /\ probeResult = << >>

VectorOperators ==
    /\ probe # << >>
    /\ probeResult = << >>
    /\ probeResult' =
         [sum |-> PlusAssign(probe.a, probe.b),
          back |-> MinusAssign(PlusAssign(probe.a, probe.b), probe.b),
          difference |-> MinusAssign(probe.a, probe.b),
          scaled |-> TimesAssign(probe.a, probe.k),
          squared |-> SquaredLength(probe.a),
          equal |-> Equals(probe.a, probe.b)]
    /\ UNCHANGED <<sensorVars, probe, historyVars>>

NextVector == VectorOperators

SpecVector == InitVector /\ [][NextVector]_vars

(***************************************************************************)
(* Definitions shared by the properties.                                   *)
(***************************************************************************)
\* wrap(v, m) = v mod m with result in [0, m).
Wrap(v, m) == v % m

\* The stored horizontal angle, read in degrees.
StoredAngle == ToDegrees(SemanticLidarData.HorizontalAngle)

\* Every tick so far ran with the same DeltaTime.
FixedDeltaTime == \A i, j \in DOMAIN tickLog : tickLog[i] = tickLog[j]

\* N * rotationFrequency * horizontalFov * dt for the N ticks of the log.
TurnedAngle ==
    (Len(tickLog) * Description.RotationFrequency
       * Description.HorizontalFov * tickLog[1]) \div TimeUnit

\* round-half-away-from-zero of pointsPerSecond * dt / C, as the integer n
\* nearest to the quotient with halves going up.
RoundedPoints(dt) ==
    CHOOSE n \in 0..(Description.PointsPerSecond * dt) :
      /\ 2 * n * TimeUnit * Description.Channels
           <= 2 * Description.PointsPerSecond * dt
                + TimeUnit * Description.Channels
      /\ 2 * Description.PointsPerSecond * dt
           < 2 * n * TimeUnit * Description.Channels
               + TimeUnit * Description.Channels

\* The tick in progress casts rays, and its sweep is being or has been
\* assembled.
Assembling == pc \in {"classify", "advance"}

Assembled ==
    \/ pc = "advance"
    \/ pc = "send" /\ tick.PointsToScanWithOneLaser > 0

ZeroQuad == [x |-> 0, y |-> 0, z |-> 0, w |-> 0]

\* The hits a sequential run of channel c records in the current tick.
SequentialHits(c) ==
    [j \in 1..tick.PointsToScanWithOneLaser |->
       [bBlockingHit |-> Trace(scene, c, j - 1).bBlockingHit,
        Distance |-> Trace(scene, c, j - 1).Distance,
        Surface |-> Trace(scene, c, j - 1).Surface,
        TraceEnd |-> <<LaserAngles[c],
                       HorizAngle(tick, Description, j - 1),
                       Trace(scene, c, j - 1).Distance>>]]

\* Position in the sweep before the first detection of channel c.
RECURSIVE Offset(_)
Offset(c) == IF c = 1 THEN 0 ELSE Offset(c - 1) + Len(RecordedHits[c - 1])

(***************************************************************************)
(* C1                                                                      *)
(***************************************************************************)
\* C1 as stated: after N ticks with a fixed DeltaTime the stored angle is
\* wrap(N * rotationFrequency * horizontalFov * dt, horizontalFov), for
\* every pointsPerSecond and channel count.
C1_AngleAfterTicks_AsStated ==
    (pc = "idle" /\ Len(tickLog) > 0 /\ FixedDeltaTime)
      => StoredAngle = Wrap(TurnedAngle, Description.HorizontalFov)

\* C1 amended: the same, for a rotation frequency >= 0 and ticks whose
\* pointsPerLaser is not 0.
C1_AngleAfterTicks ==
    (/\ pc = "idle"
     /\ Len(tickLog) > 0
     /\ FixedDeltaTime
     /\ Description.RotationFrequency >= 0
     /\ RoundedPoints(tickLog[1]) > 0)
      => StoredAngle = Wrap(TurnedAngle, Description.HorizontalFov)

C1_Witness ==
    /\ pc = "idle"
    /\ Len(tickLog) >= 2
    /\ FixedDeltaTime
    /\ Description.RotationFrequency > 0
    /\ RoundedPoints(tickLog[1]) > 1
    /\ TurnedAngle > Description.HorizontalFov
    /\ SemanticLidarData.HorizontalAngle
         = ToRadians(Wrap(TurnedAngle, Description.HorizontalFov))

(***************************************************************************)
(* C2                                                                      *)
(***************************************************************************)
\* C2: every tick hands one sweep to the transport, made of the C *
\* pointsPerLaser detections of that tick's rays: an empty sweep, every
\* channel count 0, when the tick's pointsPerLaser is 0.
C2_SweepOfTheTick ==
    (pc = "idle" /\ Len(tickLog) > 0)
      => /\ DataStream.sent = Len(tickLog)
         /\ Len(DataStream.last.points) =
              Description.Channels * RoundedPoints(tickLog[Len(tickLog)])
         /\ \A c \in Channels :
              DataStream.last.header[c] = RoundedPoints(tickLog[Len(tickLog)])

(***************************************************************************)
(* C3                                                                      *)
(***************************************************************************)
\* C3: a SimulateLidar call whose pointsPerLaser rounds to 0 returns at
\* once: no lockRead, no ray, and the horizontal angle, the raw-hit
\* buffers, the channel counts and the sweep are left as they were.
C3_ZeroTickChangesNothing ==
    [][(pc = "idle" /\ pc' # "idle" /\ RoundedPoints(tick'.DeltaTime) = 0)
         => /\ pc' = "send"
            /\ readLock' = readLock
            /\ lockAcquires' = lockAcquires
            /\ UNCHANGED <<SemanticLidarData, RecordedHits, PointsPerChannel,
                           idxPtsOneLaser>>]_vars

C3_Witness ==
    /\ pc = "send"
    /\ tick.PointsToScanWithOneLaser = 0
    /\ RoundedPoints(tick.DeltaTime) = 0
    /\ Len(SemanticLidarData.points) > 0
    /\ StoredAngle # 0

(***************************************************************************)
(* C4                                                                      *)
(***************************************************************************)
\* C4: on a tick with pointsPerLaser > 0 every (channel, sample) ray leaves
\* one RawHit: at the join every buffer holds pointsPerLaser hits, the
\* sweep holds C * pointsPerLaser detections, and when every ray misses
\* every detection has object_idx 0.
C4_OneHitPerRay ==
    /\ pc \in {"fanout", "joined", "classify", "advance"}
         => /\ tick.PointsToScanWithOneLaser = RoundedPoints(tick.DeltaTime)
            /\ RoundedPoints(tick.DeltaTime) > 0
    /\ pc = "joined"
         => \A c \in Channels :
              Len(RecordedHits[c]) = RoundedPoints(tick.DeltaTime)
    /\ Assembled
         => /\ Len(SemanticLidarData.points) =
                 Description.Channels * RoundedPoints(tick.DeltaTime)
            /\ scene = "clear"
                 => \A k \in DOMAIN SemanticLidarData.points :
                      SemanticLidarData.points[k].object_idx = 0

C4_Witness ==
    /\ pc = "send"
    /\ scene = "clear"
    /\ Description.Channels >= 2
    /\ RoundedPoints(tick.DeltaTime) >= 2
    /\ Len(SemanticLidarData.points) =
         Description.Channels * RoundedPoints(tick.DeltaTime)

(***************************************************************************)
(* C5                                                                      *)
(***************************************************************************)
\* C5: in the fan-out the task of channel i writes only buffer i, which
\* was cleared before the fan-out: no buffer has two writers, every buffer
\* holds what its own task has cast so far, and at the join it holds what
\* a sequential run of the channels records.
C5_DisjointBuffers ==
    /\ pc \in {"fanout", "joined"}
         => \A c \in Channels :
              /\ writers[c] \subseteq {c}
              /\ RecordedHits[c] =
                   SubSeq(SequentialHits(c), 1, idxPtsOneLaser[c])
    /\ pc = "joined"
         => \A c \in Channels : RecordedHits[c] = SequentialHits(c)

C5_Witness ==
    /\ pc = "fanout"
    /\ Description.Channels >= 2
    /\ tick.PointsToScanWithOneLaser >= 2
    /\ idxPtsOneLaser[2] = tick.PointsToScanWithOneLaser
    /\ idxPtsOneLaser[1] = 1
    /\ writers[1] = {1}
    /\ writers[2] = {2}

(***************************************************************************)
(* C6                                                                      *)
(***************************************************************************)
\* C6: every ray of a tick is cast under the scene read lock, the lock is
\* taken once for the whole fan-out, and it is held nowhere outside the
\* fan-out: not while classifying, not after the tick has ended, normally
\* or by a fatal classification.
C6_ReadLockScope ==
    /\ unlockedCasts = 0
    /\ readLock \in {0, 1}
    /\ readLock = 1 <=> pc = "fanout"
    /\ pc \in {"fanout", "joined", "classify", "advance"}
         => lockAcquires = 1

C6_Witness ==
    /\ pc = "fatal"
    /\ readLock = 0
    /\ lockAcquires = 1
    /\ \E c \in Channels : idxPtsOneLaser[c] >= 2

(***************************************************************************)
(* C7                                                                      *)
(***************************************************************************)
\* C7: the sweep lists the detections channel-major and by increasing
\* sample index inside a channel: the detection of channel c, sample j is
\* at position (sum of the counts of the channels before c) + j, it is
\* written at that position as soon as it is classified, and the header
\* count of a channel is the number of its detections.
C7_SweepOrder ==
    /\ (Assembling \/ Assembled)
         => /\ Len(SemanticLidarData.points) <= Offset(Description.Channels + 1)
            /\ pc = "classify" => Len(SemanticLidarData.points) = classified
            /\ \A c \in Channels : \A j \in 1..Len(RecordedHits[c]) :
                 Offset(c) + j <= Len(SemanticLidarData.points)
                   => /\ SemanticLidarData.points[Offset(c) + j] =
                           ComputeRawDetection(RecordedHits[c][j]).det
                      /\ SemanticLidarData.points[Offset(c) + j].point =
                           <<LaserAngles[c],
                             HorizAngle(tick, Description, j - 1),
                             Trace(scene, c, j - 1).Distance>>
    /\ Assembled
         => /\ Len(SemanticLidarData.points) = Offset(Description.Channels + 1)
            /\ \A c \in Channels :
                 /\ SemanticLidarData.header[c] = Len(RecordedHits[c])
                 /\ SemanticLidarData.header[c] =
                      Cardinality({k \in DOMAIN SemanticLidarData.points :
                                     SemanticLidarData.points[k].point[1]
                                       = LaserAngles[c]})

C7_Witness ==
    /\ pc = "advance"
    /\ scene = "gaps"
    /\ Description.Channels >= 2
    /\ tick.PointsToScanWithOneLaser >= 2
    /\ SemanticLidarData.header = <<2, 2>>
    /\ SemanticLidarData.points[3].point[1] = LaserAngles[2]
    /\ SemanticLidarData.points[3].point[2] # SemanticLidarData.points[4].point[2]

(***************************************************************************)
(* C8                                                                      *)
(***************************************************************************)
\* C8: a RawHit that is no blocking hit is classified with
\* cos_inc_angle 2.0, object_idx 0, object_tag 0 and both quads zero.
C8_MissDetection ==
    (probeResult # << >> /\ ~probe.bBlockingHit)
      => /\ ~probeResult.fatal
         /\ probeResult.det.cos_inc_angle = 2 * CosUnit
         /\ probeResult.det.object_idx = 0
         /\ probeResult.det.object_tag = 0
         /\ probeResult.det.base_color = ZeroQuad
         /\ probeResult.det.ORME = ZeroQuad

C8_Witness ==
    /\ probeResult # << >>
    /\ ~probe.bBlockingHit
    /\ probeResult.det.cos_inc_angle = 2 * CosUnit

(***************************************************************************)
(* C9                                                                      *)
(***************************************************************************)
\* C9: a blocking hit whose component is no static mesh is classified with
\* object_idx 1, both quads zero and the surface's semantic tag.
C9_NoComponent ==
    (probeResult # << >> /\ probe.bBlockingHit /\ ~probe.Surface.IsStaticMesh)
      => /\ ~probeResult.fatal
         /\ probeResult.det.object_idx = 1
         /\ probeResult.det.base_color = ZeroQuad
         /\ probeResult.det.ORME = ZeroQuad
         /\ probeResult.det.object_tag = probe.Surface.CustomDepthStencilValue

(***************************************************************************)
(* C10                                                                     *)
(***************************************************************************)
\* C10: with a static mesh component the checks run face index, UV
\* lookup, material binding, material-instance cast; the first that fails
\* gives object_idx 2, 3, 4 or 5 whatever the later ones would give, with
\* both quads zero and the surface's semantic tag kept.
C10_FirstFailure ==
    LET sf == probe.Surface
        code == IF sf.FaceIndex = -1 THEN 2
                ELSE IF ~sf.UVFound THEN 3
                ELSE IF sf.Material = "none" THEN 4
                ELSE 5
    IN  (/\ probeResult # << >>
         /\ probe.bBlockingHit
         /\ sf.IsStaticMesh
         /\ (sf.FaceIndex = -1 \/ ~sf.UVFound \/ sf.Material # "instance"))
          => /\ ~probeResult.fatal
             /\ probeResult.det.object_idx = code
             /\ probeResult.det.base_color = ZeroQuad
             /\ probeResult.det.ORME = ZeroQuad
             /\ probeResult.det.object_tag = sf.CustomDepthStencilValue

C10_Witness ==
    /\ probeResult # << >>
    /\ probe.bBlockingHit
    /\ probe.Surface.IsStaticMesh
    /\ probe.Surface.FaceIndex = -1
    /\ ~probe.Surface.UVFound
    /\ probe.Surface.Material = "none"
    /\ probe.Surface.TextureParameterValues = 5
    /\ probeResult.det.object_idx = 2

(***************************************************************************)
(* C11                                                                     *)
(***************************************************************************)
\* C11: a blocking hit on a material instance with no texture parameter,
\* no scalar parameter and at least one vector parameter is classified
\* without halting the process, with object_idx 7 and both quads zero.
C11_VectorOnlyFallback ==
    LET sf == probe.Surface
    IN  (/\ probeResult # << >>
         /\ probe.bBlockingHit
         /\ sf.IsStaticMesh
         /\ sf.FaceIndex # -1
         /\ sf.UVFound
         /\ sf.Material = "instance"
         /\ sf.TextureParameterValues = 0
         /\ sf.ScalarParameterValues = 0
         /\ sf.VectorParameterValues >= 1)
          => /\ ~probeResult.fatal
             /\ probeResult.det.object_idx = 7
             /\ probeResult.det.base_color = ZeroQuad
             /\ probeResult.det.ORME = ZeroQuad

(***************************************************************************)
(* C12                                                                     *)
(***************************************************************************)
\* C12: on a material instance with no texture parameter, no scalar and no
\* vector parameter gives object_idx 6, and a first scalar parameter that
\* is not named "Transparency" gives object_idx 8 whatever the number of
\* vector parameters; both return normally with both quads zero.
C12_NoTextureFallbacks ==
    LET sf == probe.Surface
        reached == /\ probeResult # << >>
                   /\ probe.bBlockingHit
                   /\ sf.IsStaticMesh
                   /\ sf.FaceIndex # -1
                   /\ sf.UVFound
                   /\ sf.Material = "instance"
                   /\ sf.TextureParameterValues = 0
        fallback(code) == /\ ~probeResult.fatal
                          /\ probeResult.det.object_idx = code
                          /\ probeResult.det.base_color = ZeroQuad
                          /\ probeResult.det.ORME = ZeroQuad
    IN  /\ (/\ reached
            /\ sf.ScalarParameterValues = 0
            /\ sf.VectorParameterValues = 0) => fallback(6)
        /\ (/\ reached
            /\ sf.ScalarParameterValues >= 1
            /\ sf.ScalarName # "Transparency") => fallback(8)

C12_Witness ==
    /\ probeResult # << >>
    /\ probe.bBlockingHit
    /\ probe.Surface.IsStaticMesh
    /\ probe.Surface.FaceIndex # -1
    /\ probe.Surface.UVFound
    /\ probe.Surface.Material = "instance"
    /\ probe.Surface.TextureParameterValues = 0
    /\ probe.Surface.ScalarParameterValues = 1
    /\ probe.Surface.ScalarName = "Opacity"
    /\ probe.Surface.VectorParameterValues = 1
    /\ probeResult.det.object_idx = 8

(***************************************************************************)
(* Definitions shared by the properties of the textured branches.          *)
(***************************************************************************)
\* The probe reached ComputeRawDetectionFromMaterialInstance.
ProbeOnMaterialInstance ==
    /\ probeResult # << >>
    /\ probe.bBlockingHit
    /\ probe.Surface.IsStaticMesh
    /\ probe.Surface.FaceIndex # -1
    /\ probe.Surface.UVFound
    /\ probe.Surface.Material = "instance"

\* The colour the texture sampler returns for texture parameter i at the
\* UV coordinates of the probe, as a quad.
SampledQuad(i) ==
    LET c == GetColorFromTexture(probe.Surface.Textures[i],
                                 probe.Surface.uv_coords,
                                 textureColor).color
    IN  [x |-> c.R, y |-> c.G, z |-> c.B, w |-> c.A]

(***************************************************************************)
(* C13                                                                     *)
(***************************************************************************)
\* C13: on a material instance with 3, 4 or 13 texture parameters
\* base_color is the colour sampled from texture parameter 0 at the hit's
\* UV coordinates, ORME the colour sampled from texture parameter 2, and
\* object_idx is 0.
C13_BaseColorAndORME ==
    (/\ ProbeOnMaterialInstance
     /\ probe.Surface.TextureParameterValues \in {3, 4, 13})
      => /\ ~probeResult.fatal
         /\ probeResult.det.base_color = SampledQuad(0)
         /\ probeResult.det.ORME = SampledQuad(2)
         /\ probeResult.det.object_idx = 0

(***************************************************************************)
(* C14                                                                     *)
(***************************************************************************)
\* C14: on a material instance with 1 or 2 texture parameters base_color
\* and ORME are equal, both the colour sampled from texture parameter 0 at
\* the hit's UV coordinates, and object_idx is 0.
C14_SingleSample ==
    (/\ ProbeOnMaterialInstance
     /\ probe.Surface.TextureParameterValues \in {1, 2})
      => /\ ~probeResult.fatal
         /\ probeResult.det.base_color = probeResult.det.ORME
         /\ probeResult.det.base_color = SampledQuad(0)
         /\ probeResult.det.object_idx = 0

(***************************************************************************)
(* C15                                                                     *)
(***************************************************************************)
\* C15: on a material instance with no texture parameter whose first
\* scalar parameter is named "Transparency" with a value v in [0, 1],
\* base_color.w is 255 - round(v * 256) clamped into 0..255, the other
\* three channels of base_color and the whole of ORME are the unmodified
\* sampled colour, and object_idx is 0.
C15_TransparencyAlpha ==
    LET sf == probe.Surface
        rounded == RoundHalfFromZero(sf.ScalarValue * 256, ValueUnit)
        clamped == IF 255 - rounded < 0 THEN 0
                   ELSE IF 255 - rounded > 255 THEN 255
                   ELSE 255 - rounded
    IN  (/\ ProbeOnMaterialInstance
         /\ sf.TextureParameterValues = 0
         /\ sf.ScalarParameterValues >= 1
         /\ sf.ScalarName = "Transparency"
         /\ sf.ScalarValue \in 0..ValueUnit)
          => /\ ~probeResult.fatal
             /\ probeResult.det.base_color.w = clamped
             /\ probeResult.det.base_color.x = textureColor.R
             /\ probeResult.det.base_color.y = textureColor.G
             /\ probeResult.det.base_color.z = textureColor.B
             /\ probeResult.det.ORME =
                  [x |-> textureColor.R, y |-> textureColor.G,
                   z |-> textureColor.B, w |-> textureColor.A]
             /\ probeResult.det.object_idx = 0

(***************************************************************************)
(* C16                                                                     *)
(***************************************************************************)
\* The hit ComputeAndSaveDetections classifies next, and whether it lies on
\* a material instance whose number of texture parameters is none of
\* 0, 1, 2, 3, 4, 13.
NextHit ==
    LET at == DetectionOrder(RecordedHits, Description.Channels)[classified + 1]
    IN  RecordedHits[at[1]][at[2]]

OnUnsupportedTextureCount(hit) ==
    /\ hit.bBlockingHit
    /\ hit.Surface.IsStaticMesh
    /\ hit.Surface.FaceIndex # -1
    /\ hit.Surface.UVFound
    /\ hit.Surface.Material = "instance"
    /\ hit.Surface.TextureParameterValues \notin {0, 1, 2, 3, 4, 13}

\* C16: classifying a hit on a material instance whose texture-parameter
\* count is not in {0, 1, 2, 3, 4, 13} ends in the fatal state with
\* object_idx still the 0 written before the ladder and no detection
\* stored for the hit; from the fatal state no further hit of the tick is
\* classified and the sweep of the tick never reaches the transport.
C16_UnsupportedIsFatal ==
    /\ [][/\ pc # "fatal"
          /\ (/\ pc = "classify"
              /\ classified
                   < Len(DetectionOrder(RecordedHits, Description.Channels))
              /\ OnUnsupportedTextureCount(NextHit))
               => /\ pc' = "fatal"
                  /\ classified' = classified
                  /\ SemanticLidarData' = SemanticLidarData
                  /\ DataStream' = DataStream]_vars
    /\ [](pc = "fatal"
            => /\ OnUnsupportedTextureCount(NextHit)
               /\ ComputeRawDetection(NextHit).det.object_idx = 0
               /\ Len(SemanticLidarData.points) = classified
               /\ DataStream.sent = Len(tickLog) - 1)

C16_Witness ==
    /\ pc = "fatal"
    /\ scene = "patches"
    /\ Len(tickLog) = 2
    /\ DataStream.sent = 1
    /\ classified = 1
    /\ Len(DetectionOrder(RecordedHits, Description.Channels)) = 4

(***************************************************************************)
(* C17                                                                     *)
(***************************************************************************)
\* The rays of the tick in progress are being cast or have been cast, and
\* SetHorizontalAngle has not yet moved the stored angle.
Casting == pc \in {"fanout", "joined", "classify"}

\* C17: the ray of sample j (from 0) of every channel is cast at the
\* horizontal angle wrap(currentHorizontalAngle + j * angularStepPerSample,
\* horizontalFov) - horizontalFov / 2, with angularStepPerSample =
\* rotationFrequency * horizontalFov * dt / pointsPerLaser, and so at an
\* angle in [-fov/2, fov/2).
C17_HorizontalAngleWindow ==
    Casting =>
      \A c \in DOMAIN RecordedHits : \A n \in DOMAIN RecordedHits[c] :
        LET fov == Description.HorizontalFov
            angularStepPerSample ==
              FloatDiv(FloatDiv(Description.RotationFrequency * fov
                                  * tick.DeltaTime, TimeUnit),
                       RoundedPoints(tick.DeltaTime))
            used == RecordedHits[c][n].TraceEnd[2]
        IN  /\ used = Wrap(StoredAngle + (n - 1) * angularStepPerSample, fov)
                        - FloatDiv(fov, 2)
            /\ -FloatDiv(fov, 2) <= used
            /\ used < FloatDiv(fov, 2)

(***************************************************************************)
(* C18                                                                     *)
(***************************************************************************)
\* C18: at every moment the stored horizontal angle, read in degrees, lies
\* in [0, horizontalFov).
C18_StoredAngleRange ==
    /\ 0 <= StoredAngle
    /\ StoredAngle < Description.HorizontalFov

(***************************************************************************)
(* C19                                                                     *)
(***************************************************************************)
StrictlyDecreasing(angles) ==
    \A i \in 1..(Len(angles) - 1) : angles[i] > angles[i + 1]

C20_AnglesKept ==
    /\ probe.TraceEnd[1] = 10 * DegUnit
    /\ probe.TraceEnd[2] = -45 * DegUnit
    /\ probe.TraceEnd[3] = IF probe.bBlockingHit THEN probe.Distance ELSE 0
    /\ probeResult # << >> => probeResult.det.point = probe.TraceEnd

C20_Witness ==
    /\ probeResult # << >>
    /\ probe.bBlockingHit
    /\ probe.Distance > 0
    /\ probeResult.det.object_idx = 8
    /\ probeResult.det.point = <<10 * DegUnit, -45 * DegUnit, probe.Distance>>

(***************************************************************************)
(* C21                                                                     *)
(***************************************************************************)
\* The tick in progress cast every ray, classified every hit, assembled
\* the sweep, released the read lock and advanced the horizontal angle.
TickCompleted ==
    /\ pc = "send"
    /\ tick.PointsToScanWithOneLaser > 0
    /\ \A c \in Channels :
         Len(RecordedHits[c]) = tick.PointsToScanWithOneLaser
    /\ Len(SemanticLidarData.points)
         = Description.Channels * tick.PointsToScanWithOneLaser
    /\ \A c \in Channels :
         SemanticLidarData.header[c] = tick.PointsToScanWithOneLaser
    /\ readLock = 0
    /\ SemanticLidarData.HorizontalAngle
         = ToRadians(Fmod(tick.CurrentHorizontalAngle
                            + tick.AngleDistanceOfTick,
                          Description.HorizontalFov))

\* The process ended in a Fatal log while classifying a hit on a material
\* instance with an unsupported number of texture parameters, or with
\* vector parameters only.
HaltedOnMaterial ==
    /\ pc = "fatal"
    /\ \/ OnUnsupportedTextureCount(NextHit)
       \/ /\ NextHit.bBlockingHit
          /\ NextHit.Surface.IsStaticMesh
          /\ NextHit.Surface.FaceIndex # -1
          /\ NextHit.Surface.UVFound
          /\ NextHit.Surface.Material = "instance"
          /\ NextHit.Surface.TextureParameterValues = 0
          /\ NextHit.Surface.ScalarParameterValues = 0
          /\ NextHit.Surface.VectorParameterValues >= 1

\* C21 as stated: under fair scheduling every tick that starts with
\* pointsPerLaser > 0 eventually completes, whatever the rays strike.
C21_TickCompletes_AsStated == (pc = "fanout") ~> TickCompleted

\* C21, amended: under fair scheduling every tick that starts with
\* pointsPerLaser > 0 eventually completes, or the process ends in a Fatal
\* log while classifying a hit on a material instance with an unsupported
\* texture count or with vector parameters only.
C21_TickCompletes == (pc = "fanout") ~> (TickCompleted \/ HaltedOnMaterial)

C21_Witness ==
    /\ TickCompleted
    /\ Description.Channels = 2
    /\ tick.PointsToScanWithOneLaser = 2
    /\ scene = "gaps"
    /\ Len(tickLog) = 2

(***************************************************************************)
(* C22                                                                     *)
(***************************************************************************)
\* The tick in progress is past the early return and the assertion.
InTick == pc \in {"fanout", "joined", "classify", "advance"}

\* SimulateLidar stopped at check(ChannelCount == LaserAngles.Num()).
CheckFailed == pc = "fatal" /\ tick.PointsToScanWithOneLaser = 0

\* C22: after any sequence of reconfigurations and ticks LaserAngles and
\* PointsPerChannel both hold one entry per configured channel, the
\* assertion of SimulateLidar has not failed, and during a tick every
\* channel index is within the raw-hit buffers and the count vector.
C22_SizesFollowChannels ==
    /\ Len(LaserAngles) = Description.Channels
    /\ Len(PointsPerChannel) = Description.Channels
    /\ ~CheckFailed
    /\ InTick => /\ Channels \subseteq DOMAIN RecordedHits
                 /\ Channels \subseteq DOMAIN PointsPerChannel
                 /\ Channels \subseteq DOMAIN LaserAngles

C22_Witness ==
    /\ InTick
    /\ Len(tickLog) = 2
    /\ Description.Channels = 2
    /\ Len(DataStream.last.header) = 1
    /\ Len(RecordedHits) = 2
    /\ Len(LaserAngles) = 2

(***************************************************************************)
(* C23                                                                     *)
(***************************************************************************)
\* Every channel task of the tick has run its loop to the end.
TasksFinished ==
    \A c \in Channels :
      /\ idxPtsOneLaser[c] = tick.PointsToScanWithOneLaser
      /\ Len(RecordedHits[c]) = tick.PointsToScanWithOneLaser

\* The sweep of the tick holds the detection of every recorded hit and
\* the count of every channel.
SweepAssembled ==
    /\ Len(SemanticLidarData.points)
         = Description.Channels * tick.PointsToScanWithOneLaser
    /\ \A c \in Channels :
         SemanticLidarData.header[c] = Len(RecordedHits[c])

\* C23: the raw-hit buffers are cleared before any ray of a tick is cast
\* and are written only by the channel tasks; no hit is classified and
\* nothing is written to the sweep until every channel task has finished
\* and the read lock is released, and classification leaves the buffers
\* alone; the horizontal angle is advanced only once the sweep is fully
\* assembled; and the hits being classified are those of the rays of the
\* tick in progress.
C23_PhaseOrder ==
    /\ [][/\ RecordedHits' # RecordedHits
               => \/ /\ pc = "idle"
                     /\ pc' = "fanout"
                     /\ \A c \in DOMAIN RecordedHits' :
                          RecordedHits'[c] = << >>
                  \/ /\ pc = "fanout"
                     /\ readLock > 0
                     /\ ~TasksFinished
          /\ (pc = "fanout" /\ pc' = "fanout")
               => \A c \in Channels :
                    Len(RecordedHits[c]) = idxPtsOneLaser[c]
          /\ (\/ classified' # classified
              \/ SemanticLidarData'.points # SemanticLidarData.points
              \/ SemanticLidarData'.header # SemanticLidarData.header)
               => /\ TasksFinished
                  /\ readLock = 0
                  /\ RecordedHits' = RecordedHits
          /\ (\/ SemanticLidarData'.HorizontalAngle
                   # SemanticLidarData.HorizontalAngle
              \/ pc = "advance")
               => /\ pc = "advance"
                  /\ SweepAssembled
                  /\ classified = Len(SemanticLidarData.points)]_vars
    /\ [](pc \in {"joined", "classify", "advance"}
            => \A c \in Channels :
                 /\ Len(RecordedHits[c]) = tick.PointsToScanWithOneLaser
                 /\ \A n \in DOMAIN RecordedHits[c] :
                      /\ RecordedHits[c][n].TraceEnd[1] = LaserAngles[c]
                      /\ RecordedHits[c][n].TraceEnd[2]
                           = HorizAngle(tick, Description, n - 1)
                      /\ RecordedHits[c][n].bBlockingHit
                           = Trace(scene, c, n - 1).bBlockingHit)

C23_Witness ==
    /\ pc = "classify"
    /\ Len(tickLog) = 2
    /\ Description.Channels = 2
    /\ classified = 1
    /\ Len(DataStream.last.points) >= 2
    /\ tick.PointsToScanWithOneLaser >= 2
    /\ scene = "gaps"
    /\ tick.CurrentHorizontalAngle # 0

(***************************************************************************)
(* C24                                                                     *)
(***************************************************************************)
QuadChannels == {"x", "y", "z", "w"}

\* C24: addition, subtraction and scaling by an 8-bit scalar give in each
\* channel a byte congruent modulo 256 to the sum, difference or product
\* of that channel alone, so (a + b) - b = a; SquaredLength is the exact
\* sum of the four squares; and == is true exactly for equal quads.
C24_QuadArithmetic ==
    probeResult # << >> =>
      LET a == probe.a
          b == probe.b
          k == probe.k
          r == probeResult
      IN  /\ \A ch \in QuadChannels :
               /\ r.sum[ch] \in 0..255
               /\ \E carry \in 0..1 :
                    a[ch] + b[ch] = r.sum[ch] + 256 * carry
               /\ r.difference[ch] \in 0..255
               /\ \E borrow \in 0..1 :
                    a[ch] - b[ch] = r.difference[ch] - 256 * borrow
               /\ r.scaled[ch] \in 0..255
               /\ \E high \in 0..254 :
                    a[ch] * k = r.scaled[ch] + 256 * high
          /\ r.back = a
          /\ r.squared = a.x * a.x + a.y * a.y + a.z * a.z + a.w * a.w
          /\ r.equal <=> (a = b)

C24_Witness ==
    /\ probeResult # << >>
    /\ probe.a = [x |-> 200, y |-> 0, z |-> 255, w |-> 255]
    /\ probe.b = [x |-> 100, y |-> 100, z |-> 255, w |-> 0]
    /\ probe.k = 3
    /\ probeResult.sum = [x |-> 44, y |-> 100, z |-> 254, w |-> 255]
    /\ probeResult.difference = [x |-> 100, y |-> 156, z |-> 0, w |-> 255]
    /\ probeResult.scaled = [x |-> 88, y |-> 0, z |-> 253, w |-> 253]
    /\ probeResult.squared = 170050
    /\ ~probeResult.equal

=============================================================================
